---- MODULE Spec2Model ----
(***************************************************************************)
(* A model of tools/optout_cli.py: one run of the command-line tool, from  *)
(* the command line and the file system it starts with to its exit.        *)
(*                                                                         *)
(* Python values are modelled as follows.                                  *)
(*   - A dict (a broker record, the parsed argument namespace, the command *)
(*     line) is a function whose DOMAIN is the set of keys present.  For   *)
(*     the namespace and the command line an absent key stands for None.   *)
(*   - A str field value is a TLA+ string; a bool is a BOOLEAN.            *)
(*   - A boolean command-line token is a sequence of one-character         *)
(*     strings, so that strip() and lower() act on its characters.         *)
(*   - A file's text, and what is written to standard output, is a record  *)
(*     [top, items, trailer]: the kind of document, its rows or objects,   *)
(*     and the text after them.                                            *)
(***************************************************************************)
EXTENDS Integers, Sequences, FiniteSets, TLC

VARIABLES
    argv,      \* the command line: option name -> raw value
    fs,        \* the file system: path -> [perm, data]
    fs0,       \* the file system the run started with (history)
    pc,        \* where main() is
    args,      \* the namespace parse_args returned
    brokers,   \* what load_inventory returned
    filtered,  \* what filter_inventory returned
    ordered,   \* what sort_brokers returned
    stdout,    \* what has been written to standard output
    stderr,    \* the message written to the error stream
    status,    \* the exit status, -1 while the process runs
    trace      \* the calls and I/O events so far, oldest first

vars == <<argv, fs, fs0, pc, args, brokers, filtered, ordered, stdout, stderr,
          status, trace>>

\* The longest inventory the model draws.
MaxLen == 2

-----------------------------------------------------------------------------
(* Python dict and list helpers *)

EmptyDict == [k \in {} |-> k]

\* dict.get(k, default)
Get(d, k, default) == IF k \in DOMAIN d THEN d[k] ELSE default

Range(s) == {s[i] : i \in 1..Len(s)}

SeqsUpTo(S, n) == UNION {[1..k -> S] : k \in 0..n}

\* The dicts holding key k with a value of V, and the dict without k.
Opt(k, V) == {EmptyDict} \cup {k :> v : v \in V}

RECURSIVE Count(_, _)
Count(s, x) ==
    IF s = <<>> THEN 0
    ELSE (IF Head(s) = x THEN 1 ELSE 0) + Count(Tail(s), x)

-----------------------------------------------------------------------------
(* Constants of the program *)

PRIORITY_ORDER == ("crucial" :> 0) @@ ("high" :> 1) @@ ("normal" :> 2)

\* The rank sort_brokers gives a priority that PRIORITY_ORDER does not hold.
UnrankedPriority == 99

DefaultInventory == "data/brokers.json"

FormatChoices == {"csv", "json"}

Commands == {"list", "filter", "export"}

BoolFilters == {"requires_phone", "requires_id", "requires_payment"}

FilterOptions == {"priority", "category"} \cup BoolFilters

-----------------------------------------------------------------------------
(* parse_bool *)

Whitespace == {" ", "\t", "\n"}

UpperCase == <<"A", "E", "F", "L", "N", "O", "R", "S", "T", "U", "Y">>
LowerCase == <<"a", "e", "f", "l", "n", "o", "r", "s", "t", "u", "y">>

\* str.lower() of one character
LowerChar(c) ==
    IF \E i \in 1..Len(UpperCase) : UpperCase[i] = c
    THEN LowerCase[CHOOSE i \in 1..Len(UpperCase) : UpperCase[i] = c]
    ELSE c

lower(s) == [i \in 1..Len(s) |-> LowerChar(s[i])]

RECURSIVE lstrip(_)
lstrip(s) ==
    IF s # <<>> /\ Head(s) \in Whitespace THEN lstrip(Tail(s)) ELSE s

RECURSIVE rstrip(_)
rstrip(s) ==
    IF s # <<>> /\ s[Len(s)] \in Whitespace
    THEN rstrip(SubSeq(s, 1, Len(s) - 1))
    ELSE s

strip(s) == rstrip(lstrip(s))

TrueTokens == {<<"t", "r", "u", "e">>, <<"1">>, <<"y", "e", "s">>, <<"y">>}
FalseTokens == {<<"f", "a", "l", "s", "e">>, <<"0">>, <<"n", "o">>, <<"n">>}

\* parse_bool with its last line returning False instead of raising.
parse_bool_lenient(value) ==
    LET normalized == lower(strip(value)) IN
    [ok |-> TRUE, value |-> normalized \in TrueTokens]

\* parse_bool(value): [ok |-> TRUE, value |-> the bool], or ok = FALSE where
\* the code raises ArgumentTypeError.
parse_bool(value) ==
    LET normalized == lower(strip(value)) IN
    IF normalized \in TrueTokens THEN [ok |-> TRUE, value |-> TRUE]
    ELSE IF normalized \in FalseTokens THEN [ok |-> TRUE, value |-> FALSE]
    ELSE [ok |-> FALSE, value |-> FALSE]

-----------------------------------------------------------------------------
(* The json module: dumps with sort_keys = True, and loads *)

\* The keys of the model's records, in the order sort_keys = True writes them.
KeyOrder == <<"category", "name", "notes", "opt_out_url", "priority",
              "requires_id", "requires_payment", "requires_phone">>

\* json.dumps of one field value: a bool becomes the literal true or false,
\* a str a quoted string.
dump_value(k, v) ==
    IF k \in BoolFilters
    THEN <<"literal", IF v THEN "true" ELSE "false">>
    ELSE <<"string", v>>

\* dump_object writing only the fields export_csv knows.
dump_known_fields(d) ==
    LET present == SelectSeq(KeyOrder, LAMBDA k : k \in DOMAIN d /\ k # "notes") IN
    [i \in 1..Len(present) |-> <<present[i], dump_value(present[i], d[present[i]])>>]

\* json.dumps of one record: its members, keys sorted.
dump_object(d) ==
    LET present == SelectSeq(KeyOrder, LAMBDA k : k \in DOMAIN d) IN
    [i \in 1..Len(present) |-> <<present[i], dump_value(present[i], d[present[i]])>>]

\* json.dumps(payload, indent = 2, sort_keys = True), followed by trailer.
json_dumps(payload, trailer) ==
    [top |-> "array",
     items |-> [i \in 1..Len(payload) |-> dump_object(payload[i])],
     trailer |-> trailer]

load_value(token) ==
    IF token[1] = "literal" THEN token[2] = "true" ELSE token[2]

load_object(members) ==
    [k \in {members[i][1] : i \in 1..Len(members)} |->
        load_value(members[CHOOSE i \in 1..Len(members) : members[i][1] = k][2])]

\* json.loads(text): [ok, list, data]; ok = FALSE where it raises
\* JSONDecodeError, list = whether the top-level value is a list.
json_loads(text) ==
    IF text.top = "array"
    THEN [ok |-> TRUE, list |-> TRUE,
          data |-> [i \in 1..Len(text.items) |-> load_object(text.items[i])]]
    ELSE IF text.top = "object"
    THEN [ok |-> TRUE, list |-> FALSE, data |-> <<>>]
    ELSE [ok |-> FALSE, list |-> FALSE, data |-> <<>>]

-----------------------------------------------------------------------------
(* load_inventory *)

\* load_inventory without the isinstance(data, list) check.
load_inventory_unchecked(f, path) ==
    IF path \notin DOMAIN f
    THEN [ok |-> FALSE, data |-> <<>>, status |-> 1,
          message |-> <<"Inventory file not found: ", path>>]
    ELSE IF f[path].perm # "rw"
    THEN [ok |-> FALSE, data |-> <<>>, status |-> 1,
          message |-> <<"Traceback (most recent call last): PermissionError">>]
    ELSE LET parsed == json_loads(f[path].data) IN
         IF ~parsed.ok
         THEN [ok |-> FALSE, data |-> <<>>, status |-> 1,
               message |-> <<"Inventory file is not valid JSON: ", path>>]
         ELSE [ok |-> TRUE, data |-> parsed.data, status |-> 0, message |-> <<>>]

\* load_inventory(path) on the file system f: [ok, data, message, status].
\* A missing file, invalid JSON and a top-level value that is not a list
\* raise SystemExit with a message (exit status 1); any other failure to
\* read the file is an exception the code does not catch (a traceback, exit
\* status 1).
load_inventory(f, path) ==
    IF path \notin DOMAIN f
    THEN [ok |-> FALSE, data |-> <<>>, status |-> 1,
          message |-> <<"Inventory file not found: ", path>>]
    ELSE IF f[path].perm # "rw"
    THEN [ok |-> FALSE, data |-> <<>>, status |-> 1,
          message |-> <<"Traceback (most recent call last): PermissionError">>]
    ELSE LET parsed == json_loads(f[path].data) IN
         IF ~parsed.ok
         THEN [ok |-> FALSE, data |-> <<>>, status |-> 1,
               message |-> <<"Inventory file is not valid JSON: ", path>>]
         ELSE IF ~parsed.list
         THEN [ok |-> FALSE, data |-> <<>>, status |-> 1,
               message |-> <<"Inventory file must contain a list of brokers.">>]
         ELSE [ok |-> TRUE, data |-> parsed.data, status |-> 0, message |-> <<>>]

-----------------------------------------------------------------------------
(* filter_inventory *)

\* `priority and broker.get("priority") != priority`, and the same for
\* category: a filter that is None or the empty string is falsy.
StringFilterSkips(broker, f, k) ==
    /\ k \in DOMAIN f
    /\ f[k] # ""
    /\ (k \notin DOMAIN broker \/ broker[k] # f[k])

\* `requires_x is not None and broker.get("requires_x") is not requires_x`
BoolFilterSkips(broker, f, k) ==
    /\ k \in DOMAIN f
    /\ (k \notin DOMAIN broker \/ broker[k] # f[k])

\* Whether the loop body reaches filtered.append(broker).
Keeps(broker, f) ==
    /\ ~StringFilterSkips(broker, f, "priority")
    /\ ~BoolFilterSkips(broker, f, "requires_phone")
    /\ ~BoolFilterSkips(broker, f, "requires_id")
    /\ ~BoolFilterSkips(broker, f, "requires_payment")
    /\ ~StringFilterSkips(broker, f, "category")

\* filter_inventory(brokers, ...) with the five filters taken from f, where
\* an absent key is None.
filter_inventory(bs, f) == SelectSeq(bs, LAMBDA b : Keeps(b, f))

-----------------------------------------------------------------------------
(* sort_brokers *)

\* The strings the model uses as names, in the order Python's str comparison
\* (by code point, so upper case before lower case) puts them.
StrOrder == <<"", "Acme", "Beta", "Zeta", "acme">>

StrIndex(s) == CHOOSE i \in 1..Len(StrOrder) : StrOrder[i] = s

StrLess(a, b) == StrIndex(a) < StrIndex(b)

\* PriorityRank with a default that sorts first: .get(..., -1)
PriorityRankDefaultFirst(broker) ==
    IF "priority" \in DOMAIN broker /\ broker["priority"] \in DOMAIN PRIORITY_ORDER
    THEN PRIORITY_ORDER[broker["priority"]]
    ELSE -1

\* PRIORITY_ORDER.get(broker.get("priority"), 99)
PriorityRank(broker) ==
    IF "priority" \in DOMAIN broker /\ broker["priority"] \in DOMAIN PRIORITY_ORDER
    THEN PRIORITY_ORDER[broker["priority"]]
    ELSE UnrankedPriority

\* The key of the sort: (rank, broker.get("name", ""))
SortKey(broker) == <<PriorityRank(broker), Get(broker, "name", "")>>

\* Python's comparison of two key tuples.
KeyLess(a, b) ==
    \/ a[1] < b[1]
    \/ (a[1] = b[1] /\ StrLess(a[2], b[2]))

\* Insert placing x before the elements with an equal key: an unstable sort.
RECURSIVE InsertBeforeEqual(_, _)
InsertBeforeEqual(s, x) ==
    IF s = <<>> THEN <<x>>
    ELSE IF ~KeyLess(SortKey(Head(s)), SortKey(x)) THEN <<x>> \o s
    ELSE <<Head(s)>> \o InsertBeforeEqual(Tail(s), x)

\* x placed into sorted s before the first element whose key is greater:
\* after every element with an equal key, as a stable sort does.
RECURSIVE Insert(_, _)
Insert(s, x) ==
    IF s = <<>> THEN <<x>>
    ELSE IF KeyLess(SortKey(x), SortKey(Head(s))) THEN <<x>> \o s
    ELSE <<Head(s)>> \o Insert(Tail(s), x)

RECURSIVE SortFrom(_, _)
SortFrom(done, rest) ==
    IF rest = <<>> THEN done ELSE SortFrom(Insert(done, Head(rest)), Tail(rest))

\* sorted(brokers, key = ...): Python's sort is stable.
sort_brokers(bs) == SortFrom(<<>>, bs)

-----------------------------------------------------------------------------
(* render_table *)

TableHeader == <<"Name", "Priority", "Requires Phone", "Requires ID",
                 "Requires Payment", "Category">>

\* str(value).lower() of a bool
LowerBoolText(b) == IF b THEN "true" ELSE "false"

TableRow(broker) ==
    <<Get(broker, "name", ""),
      Get(broker, "priority", ""),
      LowerBoolText(Get(broker, "requires_phone", FALSE)),
      LowerBoolText(Get(broker, "requires_id", FALSE)),
      LowerBoolText(Get(broker, "requires_payment", FALSE)),
      Get(broker, "category", "")>>

SetMax(S) == CHOOSE m \in S : \A x \in S : x <= m

\* str.ljust(width)
RECURSIVE ljust(_, _)
ljust(s, width) == IF Len(s) >= width THEN s ELSE ljust(s \o " ", width)

\* "-" * width
RECURSIVE Dashes(_)
Dashes(width) == IF width <= 0 THEN "" ELSE "-" \o Dashes(width - 1)

\* " | ".join(cells)
RECURSIVE JoinCells(_)
JoinCells(cells) ==
    IF cells = <<>> THEN ""
    ELSE IF Len(cells) = 1 THEN cells[1]
    ELSE cells[1] \o " | " \o JoinCells(Tail(cells))

\* render_table(brokers): the lines of the table, which the code joins
\* with newlines.
render_table(bs) ==
    LET rows == <<TableHeader>> \o [i \in 1..Len(bs) |-> TableRow(bs[i])]
        col_widths == [c \in 1..Len(TableHeader) |->
                          SetMax({Len(rows[r][c]) : r \in 1..Len(rows)})]
        Line(row) == JoinCells([c \in 1..Len(row) |-> ljust(row[c], col_widths[c])])
        separator == JoinCells([c \in 1..Len(TableHeader) |-> Dashes(col_widths[c])])
    IN  <<Line(rows[1]), separator>> \o [i \in 1..Len(bs) |-> Line(rows[i + 1])]

-----------------------------------------------------------------------------
(* export_csv: csv.DictWriter with restval = "" and extrasaction = "raise" *)

CsvFieldnames == <<"name", "priority", "category", "requires_phone",
                   "requires_id", "requires_payment", "opt_out_url">>

\* One cell: a missing field is written empty, a str as it is, a bool as
\* str(bool).
csv_cell(row, k) ==
    IF k \notin DOMAIN row THEN ""
    ELSE IF k \in BoolFilters THEN (IF row[k] THEN "True" ELSE "False")
    ELSE row[k]

\* DictWriter._dict_to_list
dict_to_list(row) == [c \in 1..Len(CsvFieldnames) |-> csv_cell(row, CsvFieldnames[c])]

\* Whether DictWriter raises ValueError for the row: it holds a key that is
\* not a fieldname.
HasExtraFields(row) == ~(DOMAIN row \subseteq Range(CsvFieldnames))

\* writer.writerows(rows): the rows written, and whether ValueError was
\* raised; the rows before the offending one have been written by then.
RECURSIVE writerows(_)
writerows(rows) ==
    IF rows = <<>> THEN [written |-> <<>>, raised |-> FALSE]
    ELSE IF HasExtraFields(Head(rows)) THEN [written |-> <<>>, raised |-> TRUE]
    ELSE LET rest == writerows(Tail(rows)) IN
         [written |-> <<dict_to_list(Head(rows))>> \o rest.written,
          raised |-> rest.raised]

\* What export_csv writes: writeheader() then writerows(rows).
export_csv(bs) ==
    LET w == writerows(bs) IN
    [text |-> [top |-> "csv", items |-> <<CsvFieldnames>> \o w.written, trailer |-> ""],
     raised |-> w.raised]

\* What export_json writes: to a file the dumped text, to standard output
\* the same followed by a newline.
export_json(bs, to_file) == json_dumps(bs, IF to_file THEN "" ELSE "\n")

-----------------------------------------------------------------------------
(* The argument parser *)

\* parser.parse_args() on the command line a: [ok, ns].  ok = FALSE where
\* argparse calls parser.error (exit status 2): a value outside an option's
\* choices, or a type function that raised.  ns is the namespace: the
\* options given, --inventory and --format with their defaults.
parse_args(a) ==
    LET ok == /\ a["command"] \in Commands
              /\ ("priority" \in DOMAIN a => a["priority"] \in DOMAIN PRIORITY_ORDER)
              /\ \A k \in BoolFilters \cap DOMAIN a : parse_bool(a[k]).ok
              /\ ("format" \in DOMAIN a => a["format"] \in FormatChoices)
        keys == {"command", "inventory"}
                \cup (DOMAIN a \cap (FilterOptions \cup {"output"}))
                \cup (IF a["command"] = "export" THEN {"format"} ELSE {})
    IN  [ok |-> ok,
         ns |-> [k \in keys |->
                   IF k = "inventory" THEN Get(a, "inventory", DefaultInventory)
                   ELSE IF k = "format" THEN Get(a, "format", "csv")
                   ELSE IF k \in BoolFilters THEN parse_bool(a[k]).value
                   ELSE a[k]]]

-----------------------------------------------------------------------------
(* main *)

NoOutput == [top |-> "", items |-> <<>>, trailer |-> ""]

Traceback(exc) == <<"Traceback (most recent call last): " \o exc>>

\* args = parser.parse_args()
ParseArgs ==
    /\ pc = "start"
    /\ LET p == parse_args(argv) IN
       IF p.ok
       THEN /\ args' = p.ns
            /\ pc' = "parsed"
            /\ UNCHANGED <<stderr, status>>
       ELSE /\ pc' = "exit"
            /\ status' = 2
            /\ stderr' = <<"usage: optout_cli.py: error: argument">>
            /\ UNCHANGED args
    /\ trace' = Append(trace, <<"call", "parse_args">>)
    /\ UNCHANGED <<argv, fs, fs0, brokers, filtered, ordered, stdout>>

\* brokers = load_inventory(args.inventory)
LoadInventory ==
    /\ pc = "parsed"
    /\ LET r == load_inventory(fs, args["inventory"]) IN
       IF r.ok
       THEN /\ brokers' = r.data
            /\ pc' = "loaded"
            /\ UNCHANGED <<stderr, status>>
       ELSE /\ pc' = "exit"
            /\ status' = r.status
            /\ stderr' = r.message
            /\ UNCHANGED brokers
    /\ trace' = trace \o << <<"call", "load_inventory">>, <<"read", args["inventory"]>> >>
    /\ UNCHANGED <<argv, fs, fs0, args, filtered, ordered, stdout>>

\* filtered = filter_inventory(brokers, ...)
FilterInventory ==
    /\ pc = "loaded"
    /\ filtered' = filter_inventory(brokers, args)
    /\ pc' = "filtered"
    /\ trace' = Append(trace, <<"call", "filter_inventory">>)
    /\ UNCHANGED <<argv, fs, fs0, args, brokers, ordered, stdout, stderr, status>>

\* ordered = sort_brokers(filtered)
SortBrokers ==
    /\ pc = "filtered"
    /\ ordered' = sort_brokers(filtered)
    /\ pc' = "sorted"
    /\ trace' = Append(trace, <<"call", "sort_brokers">>)
    /\ UNCHANGED <<argv, fs, fs0, args, brokers, filtered, stdout, stderr, status>>

\* if args.command in {"list", "filter"}: print(render_table(ordered)); return
RenderTable ==
    /\ pc = "sorted"
    /\ args["command"] \in {"list", "filter"}
    /\ stdout' = [top |-> "table", items |-> render_table(ordered), trailer |-> "\n"]
    /\ pc' = "exit"
    /\ status' = 0
    /\ trace' = trace \o << <<"call", "render_table">>, <<"stdout", "">> >>
    /\ UNCHANGED <<argv, fs, fs0, args, brokers, filtered, ordered, stderr>>

\* The text written to args.output, or to standard output without it.  With
\* an output path the parent directory is made and the file opened for
\* writing, which empties it; a file that cannot be opened raises
\* PermissionError and nothing is written.  raised: the renderer raised
\* after writing text.
WriteOut(name, text, raised) ==
    IF "output" \in DOMAIN args
    THEN LET path == args["output"] IN
         IF path \in DOMAIN fs /\ fs[path].perm # "rw"
         THEN /\ UNCHANGED <<fs, stdout>>
              /\ status' = 1
              /\ stderr' = Traceback("PermissionError")
              /\ trace' = trace \o << <<"call", name>>, <<"mkdir", path>> >>
         ELSE /\ fs' = (path :> [perm |-> "rw", data |-> text]) @@ fs
              /\ UNCHANGED stdout
              /\ status' = IF raised THEN 1 ELSE 0
              /\ stderr' = IF raised THEN Traceback("ValueError") ELSE stderr
              /\ trace' = trace \o << <<"call", name>>, <<"mkdir", path>>, <<"write", path>> >>
    ELSE /\ stdout' = text
         /\ UNCHANGED fs
         /\ status' = IF raised THEN 1 ELSE 0
         /\ stderr' = IF raised THEN Traceback("ValueError") ELSE stderr
         /\ trace' = trace \o << <<"call", name>>, <<"stdout", "">> >>

\* if args.format == "csv": export_csv(ordered, args.output)
ExportCsv ==
    /\ pc = "sorted"
    /\ args["command"] = "export"
    /\ args["format"] = "csv"
    /\ LET e == export_csv(ordered) IN WriteOut("export_csv", e.text, e.raised)
    /\ pc' = "exit"
    /\ UNCHANGED <<argv, fs0, args, brokers, filtered, ordered>>

\* else: export_json(ordered, args.output)
ExportJson ==
    /\ pc = "sorted"
    /\ args["command"] = "export"
    /\ args["format"] # "csv"
    /\ WriteOut("export_json", export_json(ordered, "output" \in DOMAIN args), FALSE)
    /\ pc' = "exit"
    /\ UNCHANGED <<argv, fs0, args, brokers, filtered, ordered>>

Next ==
    \/ ParseArgs
    \/ LoadInventory
    \/ FilterInventory
    \/ SortBrokers
    \/ RenderTable
    \/ ExportCsv
    \/ ExportJson

-----------------------------------------------------------------------------
(* The runs the model draws: command lines and file systems *)

AltInventory == "missing/brokers.json"

OutPath == "out/queue.txt"

\* A file an earlier program left behind.
OldText == [top |-> "text", items |-> <<>>, trailer |-> "old"]

\* The order in which the inventory file's author wrote each record's keys.
AuthoredOrder == <<"name", "priority", "category", "requires_phone", "requires_id",
                   "requires_payment", "opt_out_url", "notes">>

\* One record as its author wrote it in the inventory file.
AuthoredObject(d) ==
    LET present == SelectSeq(AuthoredOrder, LAMBDA k : k \in DOMAIN d) IN
    [i \in 1..Len(present) |->
        <<present[i],
          IF present[i] \in BoolFilters
          THEN <<"literal", IF d[present[i]] THEN "true" ELSE "false">>
          ELSE <<"string", d[present[i]]>> >>]

\* The text of an inventory file holding the broker list bs.
InventoryText(bs) ==
    [top |-> "array",
     items |-> [i \in 1..Len(bs) |-> AuthoredObject(bs[i])],
     trailer |-> "\n"]

\* The invocations `list` and `filter`, and `export` with each of the given
\* --format and --output values or without them.
ListForms == {"command" :> "list", "command" :> "filter"}

ExportForms(formats, outputs) ==
    {("command" :> "export") @@ f @@ o :
        f \in Opt("format", formats), o \in Opt("output", outputs)}

\* Command lines: a form, with any choice of the optional flags.
CommandLines(forms, inventories, priorities, phones, ids, payments, categories) ==
    {f @@ i @@ p @@ ph @@ id @@ pay @@ c :
        f \in forms,
        i \in Opt("inventory", inventories),
        p \in Opt("priority", priorities),
        ph \in Opt("requires_phone", phones),
        id \in Opt("requires_id", ids),
        pay \in Opt("requires_payment", payments),
        c \in Opt("category", categories)}

\* File systems: the default inventory path holding one of the given files,
\* and the output path absent or holding one of the given files.
FileSystems(inventoryFiles, outFiles) ==
    {(DefaultInventory :> i) @@ o :
        i \in inventoryFiles, o \in Opt(OutPath, outFiles)}

\* Readable inventory files holding the lists of at most MaxLen of the given
\* records.
InventoryFiles(records) ==
    {[perm |-> "rw", data |-> InventoryText(bs)] : bs \in SeqsUpTo(records, MaxLen)}

\* Files that load_inventory rejects: a JSON object, text that is not JSON,
\* and a file that cannot be read.
BadInventoryFiles ==
    {[perm |-> "rw", data |-> [top |-> "object", items |-> <<>>, trailer |-> ""]],
     [perm |-> "rw", data |-> [top |-> "invalid", items |-> <<>>, trailer |-> ""]],
     [perm |-> "-", data |-> InventoryText(<<>>)]}

InitWith(commandLines, fileSystems) ==
    /\ argv \in commandLines
    /\ fs \in fileSystems
    /\ fs0 = fs
    /\ pc = "start"
    /\ args = EmptyDict
    /\ brokers = <<>>
    /\ filtered = <<>>
    /\ ordered = <<>>
    /\ stdout = NoOutput
    /\ stderr = <<>>
    /\ status = -1
    /\ trace = <<>>

\* Spec: every command and every way a load can fail, over records that
\* differ in which fields they hold.
MainBrokers ==
    {n @@ rest :
        n \in {"name" :> "Acme", "name" :> "Beta"},
        rest \in {"priority" :> "normal",
                  ("priority" :> "crucial") @@ ("requires_phone" :> TRUE)
                      @@ ("category" :> "x") @@ ("opt_out_url" :> "u"),
                  ("requires_id" :> FALSE) @@ ("notes" :> "n")}}

MainCommandLines ==
    CommandLines(ListForms \cup ExportForms({"csv", "json"}, {OutPath, DefaultInventory}),
                 {AltInventory}, {}, {<<"t", "r", "u", "e">>}, {}, {}, {})

MainFileSystems ==
    FileSystems(InventoryFiles(MainBrokers) \cup BadInventoryFiles,
                {[perm |-> "rw", data |-> OldText], [perm |-> "-", data |-> OldText]})

Init == InitWith(MainCommandLines, MainFileSystems)

Spec == Init /\ [][Next]_vars

\* SpecArgs: every kind of command-line value, valid and invalid.
BoolTokens ==
    {<<"t", "r", "u", "e">>, <<"T", "R", "U", "E">>, <<"Y">>, <<"0">>,
     <<" ", "y", "e", "s", " ">>, <<"N", "o", "\n">>,
     <<"m", "a", "y", "b", "e">>, <<"n", " ", "o">>, <<>>}

ArgsCommandLines ==
    CommandLines({"command" :> "list"} \cup ExportForms({"json", "xml"}, {OutPath}),
                 {}, {"crucial", "low"}, BoolTokens,
                 {<<"N">>, <<"2">>}, {<<"1">>, <<"o", "n">>}, {"x"})

ArgsFileSystems ==
    FileSystems(InventoryFiles({("name" :> "Acme") @@ ("priority" :> "crucial")}), {})

InitArgs == InitWith(ArgsCommandLines, ArgsFileSystems)

SpecArgs == InitArgs /\ [][Next]_vars

\* SpecSort: records with every kind of priority and name, no filters.
SortRecords ==
    {p @@ n :
        p \in Opt("priority", {"crucial", "high", "normal", "urgent"}),
        n \in Opt("name", {"", "Acme", "acme"})}

SortCommandLines ==
    CommandLines({"command" :> "list"} \cup ExportForms({"json"}, {}),
                 {}, {}, {}, {}, {}, {})

InitSort == InitWith(SortCommandLines, FileSystems(InventoryFiles(SortRecords), {}))

SpecSort == InitSort /\ [][Next]_vars

\* SpecFilter: every combination of the five filters, over records that
\* hold, lack or differ in the filtered fields.
FilterRecords ==
    {p @@ ph @@ id @@ c :
        p \in Opt("priority", {"crucial"}),
        ph \in Opt("requires_phone", {TRUE, FALSE}),
        id \in Opt("requires_id", {TRUE}),
        c \in Opt("category", {"x"})}

FilterCommandLines ==
    CommandLines({"command" :> "filter"}, {}, {"crucial"},
                 {<<"y">>, <<"n">>}, {<<"1">>, <<"0">>}, {<<"0">>}, {"", "x"})
    \cup CommandLines(ExportForms({"json"}, {}), {}, {}, {}, {}, {}, {})

InitFilter == InitWith(FilterCommandLines, FileSystems(InventoryFiles(FilterRecords), {}))

SpecFilter == InitFilter /\ [][Next]_vars

-----------------------------------------------------------------------------
(* What the properties below speak of *)

Called(name) == \E i \in 1..Len(trace) : trace[i] = <<"call", name>>

Happened(kind) == \E i \in 1..Len(trace) : trace[i][1] = kind

\* The path given with --inventory, or the default.
InventoryPath == Get(argv, "inventory", DefaultInventory)

\* Two files with the same permissions and text.
SameFile(a, b) ==
    /\ a.perm = b.perm
    /\ a.data.top = b.data.top
    /\ a.data.trailer = b.data.trailer
    /\ a.data.items = b.data.items

\* The file at path is in g what it is in f.
FileUnchanged(f, g, path) ==
    IF path \in DOMAIN f
    THEN path \in DOMAIN g /\ SameFile(f[path], g[path])
    ELSE path \notin DOMAIN g

\* Nothing was read, written or created, on standard output or on disk.
NoOutputProduced ==
    /\ stdout = NoOutput
    /\ ~Happened("stdout") /\ ~Happened("write") /\ ~Happened("mkdir")
    /\ DOMAIN fs = DOMAIN fs0
    /\ \A path \in DOMAIN fs0 : FileUnchanged(fs0, fs, path)

\* s is t with some elements left out.
RECURSIVE IsSubsequence(_, _)
IsSubsequence(s, t) ==
    IF s = <<>> THEN TRUE
    ELSE IF t = <<>> THEN FALSE
    ELSE IF Head(s) = Head(t) THEN IsSubsequence(Tail(s), Tail(t))
    ELSE IsSubsequence(s, Tail(t))

\* The text the export wrote: the --output file, or standard output.
Emitted == IF "output" \in DOMAIN args THEN fs[args["output"]].data ELSE stdout

\* The export reached its write: no output path, or the file was opened.
ExportWrote == "output" \in DOMAIN args => Happened("write")

\* A record matches the filters given, as section 4.2 of the specification
\* defines it: a string field present and equal, a missing boolean taken as
\* false.
MatchesSupplied(broker, f) ==
    /\ \A k \in {"priority", "category"} \cap DOMAIN f :
          k \in DOMAIN broker /\ broker[k] = f[k]
    /\ \A k \in BoolFilters \cap DOMAIN f : Get(broker, k, FALSE) = f[k]

\* The same with a missing string field taken as the empty string, the
\* default section 9 gives it: the weakest reading of "matches".
MatchesSuppliedOrDefault(broker, f) ==
    /\ \A k \in {"priority", "category"} \cap DOMAIN f : Get(broker, k, "") = f[k]
    /\ \A k \in BoolFilters \cap DOMAIN f : Get(broker, k, FALSE) = f[k]

-----------------------------------------------------------------------------
(* C1 and C2: filter_inventory, under SpecFilter *)

\* C1: every input record that satisfies all supplied filters, a record
\* lacking a requires_* field counting as false there, appears in the output
\* of filter_inventory as often as in the input.
C1_FilterComplete ==
    Called("filter_inventory") =>
        \A i \in 1..Len(brokers) :
            MatchesSupplied(brokers[i], args) =>
                Count(filtered, brokers[i]) = Count(brokers, brokers[i])

\* C2: the output of filter_inventory is a subsequence of the input in which
\* every record matches every filter supplied on the command line, the empty
\* category included, and it is the input when no filter is supplied.
C2_FilterSound ==
    Called("filter_inventory") =>
        /\ IsSubsequence(filtered, brokers)
        /\ \A i \in 1..Len(filtered) : MatchesSuppliedOrDefault(filtered[i], args)
        /\ (DOMAIN args \cap FilterOptions = {} => filtered = brokers)

-----------------------------------------------------------------------------
(* C3 and C4: sort_brokers, under SpecSort *)

\* The rank the claim gives: crucial 0, high 1, normal 2, any other or
\* missing priority after them.
ClaimRank(broker) ==
    IF "priority" \notin DOMAIN broker THEN 3
    ELSE IF broker["priority"] = "crucial" THEN 0
    ELSE IF broker["priority"] = "high" THEN 1
    ELSE IF broker["priority"] = "normal" THEN 2
    ELSE 3

ClaimName(broker) == IF "name" \in DOMAIN broker THEN broker["name"] ELSE ""

\* a is before b, or level with it, by (rank, name).
ClaimOrdered(a, b) ==
    \/ ClaimRank(a) < ClaimRank(b)
    \/ (ClaimRank(a) = ClaimRank(b) /\ ~StrLess(ClaimName(b), ClaimName(a)))

SameClaimKey(a, b) == ClaimRank(a) = ClaimRank(b) /\ ClaimName(a) = ClaimName(b)

\* C3: sort_brokers returns a permutation of the filtered sequence that is
\* ascending by (priority rank, name), so that every record with an
\* unrecognized or missing priority is after every record with a recognized
\* one.
C3_SortedPermutation ==
    Called("sort_brokers") =>
        /\ Len(ordered) = Len(filtered)
        /\ \A r \in Range(filtered) \cup Range(ordered) :
              Count(ordered, r) = Count(filtered, r)
        /\ \A i, j \in 1..Len(ordered) :
              i < j => ClaimOrdered(ordered[i], ordered[j])
        /\ \A i, j \in 1..Len(ordered) :
              (ClaimRank(ordered[i]) < 3 /\ ClaimRank(ordered[j]) = 3) => i < j

\* A sort that moved a record with a missing priority behind a recognized one.
C3_Witness ==
    /\ Called("sort_brokers")
    /\ Len(filtered) = 2
    /\ "priority" \notin DOMAIN filtered[1]
    /\ "name" \notin DOMAIN filtered[2]
    /\ ClaimRank(filtered[2]) = 2
    /\ ordered = <<filtered[2], filtered[1]>>

\* C4: records of the filtered sequence with identical (rank, name) keys are
\* in the output of sort_brokers in the order they have in the input.
C4_SortStable ==
    Called("sort_brokers") =>
        \A r \in Range(filtered) :
            SelectSeq(ordered, LAMBDA b : SameClaimKey(b, r))
                = SelectSeq(filtered, LAMBDA b : SameClaimKey(b, r))

\* Two different records, both without a name and with an unrecognized
\* priority, that the sort kept in input order.
C4_Witness ==
    /\ Called("sort_brokers")
    /\ Len(filtered) = 2
    /\ filtered[1] # filtered[2]
    /\ "name" \notin DOMAIN filtered[1] /\ "name" \notin DOMAIN filtered[2]
    /\ ClaimRank(filtered[1]) = 3 /\ ClaimRank(filtered[2]) = 3
    /\ ordered = filtered

-----------------------------------------------------------------------------
(* C5 to C8 and C10: a whole run, under Spec *)

\* C5: the document `export --format json` emitted, to standard output or
\* to --output, parses to exactly sort_brokers(filter_inventory(inventory)):
\* the same records in the same order, no field added, removed or changed.
C5_JsonRoundTrip ==
    (pc = "exit" /\ Called("export_json") /\ ExportWrote) =>
        LET parsed == json_loads(Emitted) IN
        /\ parsed.ok
        /\ parsed.list
        /\ parsed.data = sort_brokers(filter_inventory(brokers, args))

\* A JSON export to a file of two records that the sort exchanged, one with
\* a boolean and one with a field that is not a column.
C5_Witness ==
    /\ pc = "exit"
    /\ Called("export_json")
    /\ "output" \in DOMAIN args /\ Happened("write")
    /\ Len(brokers) = 2
    /\ "notes" \in DOMAIN brokers[1]
    /\ "requires_phone" \in DOMAIN brokers[2]
    /\ json_loads(Emitted).data = <<brokers[2], brokers[1]>>

\* C6: the file named by --inventory holds after the run what it held before
\* it, whatever the command and the options, --output included.
C6_InventoryNeverWritten ==
    pc = "exit" => FileUnchanged(fs0, fs, InventoryPath)

\* The three input-file errors: missing file, malformed JSON, a top-level
\* value that is not a list.
InputFileError ==
    \/ InventoryPath \notin DOMAIN fs0
    \/ /\ InventoryPath \in DOMAIN fs0
       /\ fs0[InventoryPath].perm = "rw"
       /\ fs0[InventoryPath].data.top \in {"invalid", "object"}

\* The inventory file is missing, cannot be read, is not JSON, or is not a
\* list at the top.
LoadFailure ==
    \/ InputFileError
    \/ (InventoryPath \in DOMAIN fs0 /\ fs0[InventoryPath].perm # "rw")

\* The renderer ran to its end: it was called and raised nothing.
OutputWritten ==
    /\ Called("render_table") \/ Called("export_csv") \/ Called("export_json")
    /\ stderr = <<>>

\* C7: after a load failure the run is over with a non-zero status, has not
\* called filter, sort or a renderer, has written nothing to standard output
\* and has left every file as it was; a run that loaded the inventory and
\* wrote its output exits with status zero.
C7_LoadFailureTerminal ==
    /\ (parse_args(argv).ok /\ LoadFailure /\ pc \notin {"start", "parsed"}) =>
          /\ pc = "exit"
          /\ status > 0
          /\ ~Called("filter_inventory") /\ ~Called("sort_brokers")
          /\ ~Called("render_table") /\ ~Called("export_csv") /\ ~Called("export_json")
          /\ NoOutputProduced
    /\ (pc = "exit" /\ ~LoadFailure /\ OutputWritten) => status = 0

\* An export to an existing file stopped by an inventory that is a JSON
\* object, not a list.
C7_Witness ==
    /\ pc = "exit"
    /\ status = 1
    /\ argv["command"] = "export"
    /\ "output" \in DOMAIN argv /\ argv["output"] = OutPath
    /\ OutPath \in DOMAIN fs0
    /\ InventoryPath \in DOMAIN fs0
    /\ fs0[InventoryPath].perm = "rw"
    /\ fs0[InventoryPath].data.top = "object"

\* C8: `export --format csv` emits the header row, then one data row for
\* each record in order with missing fields empty, for every sequence of
\* records, those with fields other than the seven columns included.
C8_CsvShape ==
    (pc = "exit" /\ Called("export_csv") /\ ExportWrote) =>
        /\ Len(Emitted.items) = 1 + Len(ordered)
        /\ Emitted.items[1] = CsvFieldnames
        /\ \A i \in 1..Len(ordered) : \A c \in 1..Len(CsvFieldnames) :
              CsvFieldnames[c] \notin DOMAIN ordered[i] => Emitted.items[i + 1][c] = ""

\* C10: for each of the three input-file errors, the fatal message of
\* load_inventory includes the inventory path that was given.
C10_ErrorNamesPath ==
    (pc = "exit" /\ parse_args(argv).ok /\ InputFileError) =>
        InventoryPath \in Range(stderr)

-----------------------------------------------------------------------------
(* C9: the argument parser, under SpecArgs *)

AcceptedTokens == TrueTokens \cup FalseTokens

\* The command line holds a --priority or --format value outside its choices.
BadChoice ==
    \/ ("priority" \in DOMAIN argv /\ argv["priority"] \notin {"crucial", "high", "normal"})
    \/ ("format" \in DOMAIN argv /\ argv["format"] \notin {"csv", "json"})

\* The run ended with a non-zero status before the inventory was read and
\* before anything was written or created.
RejectedBeforeIO ==
    /\ pc = "exit"
    /\ status > 0
    /\ ~Happened("read")
    /\ NoOutputProduced

\* C9 as stated: a boolean token that is not, case-insensitively, one of
\* true/1/yes/y/false/0/no/n, or a value outside its choices, ends the run
\* with a non-zero status before any I/O.
C9_AsStated ==
    (pc # "start"
     /\ (BadChoice \/ \E k \in BoolFilters \cap DOMAIN argv :
                          lower(argv[k]) \notin AcceptedTokens)) =>
        RejectedBeforeIO

\* C9 amended: the same for a boolean token that, with leading and trailing
\* whitespace removed, is not case-insensitively one of the eight.
C9_ArgumentErrorsBeforeIO ==
    (pc # "start"
     /\ (BadChoice \/ \E k \in BoolFilters \cap DOMAIN argv :
                          lower(strip(argv[k])) \notin AcceptedTokens)) =>
        RejectedBeforeIO

\* A run given --requires-phone "n o", rejected with status 2.
C9_Witness ==
    /\ pc = "exit"
    /\ status = 2
    /\ "requires_phone" \in DOMAIN argv
    /\ argv["requires_phone"] = <<"n", " ", "o">>
    /\ ~BadChoice
    /\ DOMAIN argv \cap {"requires_id", "requires_payment"} = {}

====
